---------------------------- MODULE Spec2Model ----------------------------
(***************************************************************************)
(* Timing-synchronisation subsystem of the video dubbing pipeline:         *)
(*   - the word-to-segment loop of transcribe_chunk_batch                  *)
(*     (src/core/transcribe.py),                                           *)
(*   - Translator.translate_segments (src/core/translator.py),             *)
(*   - generate_dubbed_audio (src/core/dubbing.py),                        *)
(*   - process_video (src/core/pipeline.py), which runs them in turn,      *)
(*   - the chunk loop of transcribe_audio (src/core/transcribe.py).        *)
(*                                                                         *)
(* Time is counted in ticks of 0.1 ms, so that every threshold of the code *)
(* (0.3 s, 0.5 s, 0.7 s, 30 s, factors 1.05, 1.3, 2.5 and the millisecond  *)
(* delays) is an exact integer or an exact ratio of integers.  Floating    *)
(* point rounding of the Python arithmetic is not modelled.                *)
(***************************************************************************)
EXTENDS Integers, Sequences, FiniteSets, TLC

VARIABLES
    \* ---- segmentation loop, transcribe.py 225-279 ----
    words,            \* alternative.words: the word tokens of one result
    word_idx,         \* position of the `for word in alternative.words` loop
    current_speaker,
    segment_words,
    segment_start,
    prev_word_end,
    segments,         \* the list `segments` of transcribe_chunk_batch
    seg_pc,           \* "idle" | "parse" | "loop" | "flush" | "done"
    \* history of the loop: the token indices put into each emitted segment
    \* and into the segment in progress (the code keeps only their texts)
    segment_tokens,
    current_tokens,
    \* ---- Translator.translate_segments, translator.py 76-224 ----
    tr_segments,              \* the argument `segments`
    detailed_segments,
    translated_segments_map,
    batch_start,              \* `i` of `for i in range(0, len(...), BATCH_SIZE)`
    attempt,                  \* `attempt` of `for attempt in range(MAX_RETRIES)`
    success,
    tr_result,                \* the returned list (final_segments)
    tr_pc,                    \* "idle" | "start" | "attempt" | "batch_end" |
                              \* "merge" | "returned" | "raised"
    \* history: one record per call of generate_content, with the sleeps of
    \* that loop iteration; one record per finished batch, with its cooldown
    calls,
    batch_log,
    \* ---- generate_dubbed_audio, dubbing.py 21-157 ----
    dub_segments,       \* the argument `segments`
    api_key_set,        \* is ELEVENLABS_API_KEY set (ElevenLabsClient.__init__)
    dub_idx,            \* position of `for i, seg in enumerate(segments)`, from 1
    tts_audio_files,
    files,              \* the audio files that exist
    mix_spec,           \* the ffmpeg mix command, << >> before it is built
    dub_result,         \* the returned path
    dub_pc,             \* "idle" | "start" | "loop" | "synth" | "mix" |
                        \* "returned"
    \* history: what the synthesis service did for each segment, and the
    \* duration check of the segment synthesized last
    synth_events,
    last_tempo,
    \* the segments (by position) whose generate_dub call has not come back
    in_flight,
    \* ---- process_video, pipeline.py 13-108 ----
    config,               \* the environment and the target language
    utterances,           \* what transcribe_audio returned
    translated_segments,  \* what translate_segments returned
    pipe_result,          \* the returned dict, << >> before the return
    pipe_error,           \* the exception raised out of process_video
    pipe_pc,              \* "idle" | "extract" | "separate" | "transcribe" |
                          \* "segmenting" | "translator" | "translating" |
                          \* "dubbing" | "returned" | "raised"
    \* ---- the chunk loop of transcribe_audio, transcribe.py 355-398 ----
    chunks,               \* the chunks, each with its start_offset and the
                          \* token streams of its recognition results
    chunk_idx,            \* position of `for i, chunk in enumerate(chunks)`
    result_idx,           \* position of `for result in ...transcript.results`
    all_segments,
    audio_pc              \* "idle" | "chunk" | "result" | "words" | "returned"

seg_vars == <<words, word_idx, current_speaker, segment_words, segment_start,
              prev_word_end, segments, seg_pc, segment_tokens, current_tokens>>

tr_vars == <<tr_segments, detailed_segments, translated_segments_map,
             batch_start, attempt, success, tr_result, tr_pc, calls, batch_log>>

dub_vars == <<dub_segments, api_key_set, dub_idx, tts_audio_files, files,
              mix_spec, dub_result, dub_pc, synth_events, last_tempo, in_flight>>

pipe_vars == <<config, utterances, translated_segments, pipe_result,
               pipe_error, pipe_pc>>

audio_vars == <<chunks, chunk_idx, result_idx, all_segments, audio_pc>>

vars == <<seg_vars, tr_vars, dub_vars, pipe_vars, audio_vars>>

\* what each stage leaves alone
not_seg_vars == <<tr_vars, dub_vars, pipe_vars, audio_vars>>
not_tr_vars == <<seg_vars, dub_vars, pipe_vars, audio_vars>>
not_dub_vars == <<seg_vars, tr_vars, pipe_vars, audio_vars>>

-----------------------------------------------------------------------------
(* Units and generic helpers *)

\* ticks per second (one tick = 0.1 ms)
TicksPerSecond == 10 * 1000

Max(a, b) == IF a >= b THEN a ELSE b
Min(a, b) == IF a <= b THEN a ELSE b

\* Python int(): truncation of the exact quotient n/d towards zero (d > 0)
TruncDiv(n, d) == IF n >= 0 THEN n \div d ELSE -((-n) \div d)

\* the exact quotient n/d rounded down (d > 0)
FloorDiv(n, d) == n \div d

\* Python round(): the exact quotient n/d rounded to the nearest integer,
\* a tie going to the even neighbour (d > 0)
RoundDiv(n, d) ==
    LET q == n \div d
        r == n % d
    IN  IF 2 * r < d THEN q
        ELSE IF 2 * r > d THEN q + 1
        ELSE IF q % 2 = 0 THEN q ELSE q + 1

\* Python None
PyNone == "<None>"

-----------------------------------------------------------------------------
(* Segmentation: transcribe_chunk_batch, the loop over alternative.words *)

\* bound: the longest token stream of one recognition result
MaxWords == 3

\* is_pause threshold, 0.7 s
PAUSE_GAP == 7000
\* is_too_long gap threshold, 0.3 s
SOFT_GAP == 3000
\* is_too_long span threshold, 30.0 s
MAX_SEGMENT_SPAN == 300000

\* texts of the tokens, by position in the stream
Vocabulary == <<"Hi", "there", "Bob", "how", "are", "you">>
WordText(i) == Vocabulary[((i - 1) % Len(Vocabulary)) + 1]

\* speaker_tag as the service gives it: missing/empty, or a label
SpeakerTags == {"", "1"}

\* gaps between a token's start and the end of the token before it (for the
\* first token: its start), chosen on both sides of the two gap thresholds
TokenGaps == {0, SOFT_GAP + 1000, PAUSE_GAP + 3000}
\* token lengths: none (a token without timing), short, and one long enough
\* to carry a segment over the 30 s span
TokenLengths == {0, 4000, MAX_SEGMENT_SPAN - 2000}

TokenChoices == TokenGaps \X TokenLengths \X SpeakerTags

\* the token stream built from per-token choices <<gap, length, tag>>
RECURSIVE BuildWords(_, _, _)
BuildWords(choices, i, prev_end) ==
    IF i > Len(choices) THEN << >>
    ELSE LET c == choices[i]
             s == prev_end + c[1]
             e == s + c[2]
         IN  << [word |-> WordText(i), start_offset |-> s, end_offset |-> e,
                 speaker_tag |-> c[3]] >> \o BuildWords(choices, i + 1, e)

\* speaker_id = int(speaker_tag) if speaker_tag else 0
SpeakerId(speaker_tag) ==
    CASE speaker_tag = ""  -> 0
      [] speaker_tag = "1" -> 1
      [] OTHER             -> 0

\* silence_gap = (word_start - prev_word_end) if prev_word_end > 0 else 0
SilenceGap(word_start, prev_end) ==
    IF prev_end > 0 THEN word_start - prev_end ELSE 0

\* is_pause = silence_gap > 0.7
IsPause(silence_gap) == silence_gap > PAUSE_GAP

\* is_too_long = (word_start - segment_start) > 30.0 and silence_gap > 0.3
IsTooLong(word_start, seg_start, silence_gap) ==
    (word_start - seg_start) > MAX_SEGMENT_SPAN /\ silence_gap > SOFT_GAP

\* the join without the separator: "".join(segment_words)
RECURSIVE JoinWordsNoSpace(_)
JoinWordsNoSpace(ws) ==
    IF Len(ws) = 0 THEN ""
    ELSE ws[1] \o JoinWordsNoSpace(Tail(ws))

\* " ".join(segment_words)
RECURSIVE JoinWords(_)
JoinWords(ws) ==
    IF Len(ws) = 0 THEN ""
    ELSE IF Len(ws) = 1 THEN ws[1]
    ELSE ws[1] \o " " \o JoinWords(Tail(ws))

\* the dict appended to `segments`
MakeSegment(seg_start, seg_end, speaker, ws) ==
    [start |-> seg_start, end |-> seg_end, speaker |-> speaker,
     transcript |-> JoinWords(ws)]

\* a stream of two tokens of speaker 0 that follow each other and a token of
\* speaker 1 after a pause: (Hi, 0.0, 0.4), (there, 0.4, 0.8), (Bob, 2.0, 2.3)
DialogueWords ==
    << [word |-> "Hi", start_offset |-> 0, end_offset |-> PAUSE_GAP - 3000,
        speaker_tag |-> ""],
       [word |-> "there", start_offset |-> PAUSE_GAP - 3000,
        end_offset |-> PAUSE_GAP + 1000, speaker_tag |-> ""],
       [word |-> "Bob", start_offset |-> 2 * TicksPerSecond,
        end_offset |-> 2 * TicksPerSecond + SOFT_GAP, speaker_tag |-> "1"] >>

SegStart ==
    /\ \/ \E n \in 0..MaxWords :
            \E choices \in [1..n -> TokenChoices] :
               words = BuildWords(choices, 1, 0)
       \/ words = DialogueWords
    /\ word_idx = 1
    /\ current_speaker = 0
    /\ segment_words = << >>
    /\ segment_start = 0
    /\ prev_word_end = 0
    /\ segments = << >>
    /\ seg_pc = "parse"
    /\ segment_tokens = << >>
    /\ current_tokens = << >>

\* lines 225-229: `if alternative.words:` and the initialisation before the loop
ParseAlternative ==
    /\ seg_pc = "parse"
    /\ IF Len(words) > 0
       THEN /\ current_speaker' = 0
            /\ segment_words' = << >>
            /\ segment_start' = words[1].start_offset
            /\ prev_word_end' = words[1].start_offset
            /\ seg_pc' = "loop"
       ELSE /\ seg_pc' = "done"
            /\ UNCHANGED <<current_speaker, segment_words, segment_start,
                           prev_word_end>>
    /\ UNCHANGED <<words, word_idx, segments, segment_tokens, current_tokens>>
    /\ UNCHANGED not_seg_vars

\* lines 235-270: one iteration of `for word in alternative.words`
SegmentWord ==
    /\ seg_pc = "loop"
    /\ word_idx <= Len(words)
    /\ LET word == words[word_idx]
           speaker_id == SpeakerId(word.speaker_tag)
           word_start == word.start_offset
           word_end == word.end_offset
           speaker_changed == speaker_id /= current_speaker
           silence_gap == SilenceGap(word_start, prev_word_end)
           is_pause == IsPause(silence_gap)
           is_too_long == IsTooLong(word_start, segment_start, silence_gap)
       IN  IF (speaker_changed \/ is_pause \/ is_too_long) /\ Len(segment_words) > 0
           THEN /\ segments' = Append(segments,
                                  MakeSegment(segment_start, prev_word_end,
                                              current_speaker, segment_words))
                /\ segment_tokens' = Append(segment_tokens, current_tokens)
                /\ current_speaker' = speaker_id
                /\ segment_words' = << word.word >>
                /\ current_tokens' = << word_idx >>
                /\ segment_start' = word_start
                /\ prev_word_end' = word_end
           ELSE /\ current_speaker' =
                      IF Len(segment_words) = 0 THEN speaker_id ELSE current_speaker
                /\ segment_start' =
                      IF Len(segment_words) = 0 THEN word_start ELSE segment_start
                /\ segment_words' = Append(segment_words, word.word)
                /\ current_tokens' = Append(current_tokens, word_idx)
                /\ prev_word_end' = word_end
                /\ UNCHANGED <<segments, segment_tokens>>
    /\ word_idx' = word_idx + 1
    /\ seg_pc' = IF word_idx = Len(words) THEN "flush" ELSE "loop"
    /\ UNCHANGED words
    /\ UNCHANGED not_seg_vars

\* the loop's end without the append of the segment in progress
FlushSegmentForgotten ==
    /\ seg_pc = "flush"
    /\ seg_pc' = "done"
    /\ UNCHANGED <<words, word_idx, current_speaker, segment_words,
                   segment_start, prev_word_end, segments, segment_tokens,
                   current_tokens>>
    /\ UNCHANGED not_seg_vars

\* lines 272-279: the segment in progress is appended after the loop
FlushSegment ==
    /\ seg_pc = "flush"
    /\ IF Len(segment_words) > 0
       THEN /\ segments' = Append(segments,
                              MakeSegment(segment_start, prev_word_end,
                                          current_speaker, segment_words))
            /\ segment_tokens' = Append(segment_tokens, current_tokens)
       ELSE UNCHANGED <<segments, segment_tokens>>
    /\ seg_pc' = "done"
    /\ UNCHANGED <<words, word_idx, current_speaker, segment_words,
                   segment_start, prev_word_end, current_tokens>>
    /\ UNCHANGED not_seg_vars

SegNext == ParseAlternative \/ SegmentWord \/ FlushSegment

\* the segmentation loop not running
SegIdle ==
    /\ words = << >>
    /\ word_idx = 1
    /\ current_speaker = 0
    /\ segment_words = << >>
    /\ segment_start = 0
    /\ prev_word_end = 0
    /\ segments = << >>
    /\ seg_pc = "idle"
    /\ segment_tokens = << >>
    /\ current_tokens = << >>

-----------------------------------------------------------------------------
(* Translation: Translator.translate_segments *)

\* bound: the longest segment list given to translate_segments
MaxSegments == 6

\* BATCH_SIZE = 5
BATCH_SIZE == 5
\* MAX_RETRIES = 3
MAX_RETRIES == 3
\* wait_time = (2 ** attempt) * 5
BACKOFF_BASE == 5
\* time.sleep(2) after an empty response
EMPTY_RESPONSE_SLEEP == 2
\* time.sleep(2) after a successful batch
BATCH_COOLDOWN == 2
\* max(3, ...)
MIN_WORDS == 3
\* duration * 2.5, as words per 10 seconds
WORDS_PER_10_SECONDS == 25

\* segment i starts at (i - 1) * 3 s
SegmentSpacing == 3 * TicksPerSecond
\* segment lengths (end - start): negative, zero, and values on both sides of
\* whole numbers of words (1.2 s = 3 words, 1.6 s = 4, 2.0 s = 5, 2.3 s = 5.75)
SegmentLengths == << -10000, 0, 4000, 12000, 16000, 19999, 20000, 23000 >>
SourceText(i) == IF i % 2 = 1 THEN "hello" ELSE "goodbye"

\* where the lengths of an input list start in SegmentLengths: with these
\* every two lengths meet in one list of 6 segments
LengthShifts == {0, 3, 5}

\* the input list: n segments, lengths taken from SegmentLengths from `shift` on
InputSegments(n, shift) ==
    [i \in 1..n |->
        LET s == (i - 1) * SegmentSpacing
            len == SegmentLengths[((i + shift - 1) % Len(SegmentLengths)) + 1]
        IN  [start |-> s, end |-> s + len, speaker |-> i % 2,
             transcript |-> SourceText(i)]]

\* mutant of MaxWordsAllowed: the floor of 3 words forgotten
MaxWordsAllowedNoMinimum(start, end) ==
    TruncDiv((end - start) * WORDS_PER_10_SECONDS, 10 * TicksPerSecond)

\* max_words = max(3, int(duration * 2.5))
MaxWordsAllowed(start, end) ==
    Max(MIN_WORDS, TruncDiv((end - start) * WORDS_PER_10_SECONDS,
                            10 * TicksPerSecond))

\* round(x, 2) of a time in ticks, in hundredths of a second
Round2(t) == RoundDiv(t * 100, TicksPerSecond)

\* ids of response items: a number, None (no id), a string, or a list; the
\* first three are the keys of translated_segments_map, a list is unhashable
KNum(t) == <<"num", t>>
KNone == <<"none", 0>>
KStr == <<"str", 0>>
KList == <<"list", 0>>

\* lines 92-106: the dict appended to detailed_segments
DetailedSegment(seg) ==
    [id |-> seg.start,
     english_dialogue |-> seg.transcript,
     speaker |-> seg.speaker,
     timestamp |-> <<Round2(seg.start), Round2(seg.end)>>,
     duration_sec |-> Round2(seg.end - seg.start),
     max_words_allowed |-> MaxWordsAllowed(seg.start, seg.end)]

\* a slice that runs one element into the next batch
BatchAtOverlapping(detailed, i) ==
    SubSeq(detailed, i + 1, Min(i + BATCH_SIZE + 1, Len(detailed)))

\* batch = detailed_segments[i : i + BATCH_SIZE]
BatchAt(detailed, i) ==
    SubSeq(detailed, i + 1, Min(i + BATCH_SIZE, Len(detailed)))

\* lines 113-114, 149: the ids of the batch that is written into the prompt
SubmittedIds(detailed, i) ==
    [j \in 1..Len(BatchAt(detailed, i)) |-> BatchAt(detailed, i)[j].id]

\* number of the batch that starts at offset i (i // BATCH_SIZE + 1)
BatchNo(i) == (i \div BATCH_SIZE) + 1

\* dict.get(key, default)
DictGet(d, key, default) == IF key \in DOMAIN d THEN d[key] ELSE default

\* lines 172-186: the loop over batch_data, folding each item into the map;
\* translated_segments_map[item_id] = ... raises TypeError on an unhashable
\* id, which leaves the loop with the items before it merged
RECURSIVE MergeItems(_, _)
MergeItems(map, items) ==
    IF Len(items) = 0 THEN [map |-> map, raised |-> FALSE]
    ELSE LET item == items[1]
             item_id == DictGet(item, "id", KNone)
             item_text == DictGet(item, "text", PyNone)
             item_emotion == DictGet(item, "emotion", "neutral")
             entry == [text |-> item_text, emotion |-> item_emotion]
             map2 == [k \in (DOMAIN map) \cup {item_id} |->
                         IF k = item_id THEN entry ELSE map[k]]
         IN  IF item_id = KList
             THEN [map |-> map, raised |-> TRUE]
             ELSE MergeItems(map2, Tail(items))

\* mutant of RetryAgain: the `break` after a successful attempt forgotten
RetryAgainAfterSuccess(succ, att) == att < MAX_RETRIES - 1

\* after an attempt: does the retry loop run another iteration?
\* (`break` on success, and range(MAX_RETRIES))
RetryAgain(succ, att) == ~succ /\ att < MAX_RETRIES - 1

\* lines 199-205: the sleeps of the retry logic after an attempt
BackoffSleeps(succ, att) ==
    IF ~succ /\ att < MAX_RETRIES - 1
    THEN << (2 ^ att) * BACKOFF_BASE >>
    ELSE << >>

\* lines 212-221: does the loop over `segments` raise?  new_seg['transcript'][:40]
\* is evaluated for every segment found in the map, and raises on None
FinalLoopRaises(segs, map) ==
    \E i \in 1..Len(segs) :
        /\ KNum(segs[i].start) \in DOMAIN map
        /\ map[KNum(segs[i].start)].text = PyNone

\* mutant of FinalSegments: a segment without a translation is not appended
FinalSegmentsOnlyTranslated(segs, map) ==
    LET found == SelectSeq(segs, LAMBDA seg : KNum(seg.start) \in DOMAIN map)
    IN  [i \in 1..Len(found) |->
            [start |-> found[i].start, end |-> found[i].end,
             speaker |-> found[i].speaker,
             transcript |-> map[KNum(found[i].start)].text,
             emotion |-> map[KNum(found[i].start)].emotion]]

\* lines 211-221: final_segments
FinalSegments(segs, map) ==
    [i \in 1..Len(segs) |->
        LET original_id == KNum(segs[i].start)
        IN  IF original_id \in DOMAIN map
            THEN [start |-> segs[i].start, end |-> segs[i].end,
                  speaker |-> segs[i].speaker,
                  transcript |-> map[original_id].text,
                  emotion |-> map[original_id].emotion]
            ELSE segs[i]]

(* The translation service.  Its answer to a batch is an exception or a list
   of items, each a dict (an object with the same attributes is merged the
   same way); the text it returns names the batch it answers. *)
TranslationText(b) == "translation-" \o ToString(b)

\* every item of the batch, as the schema asks; every second item without
\* the optional "emotion"
FullResponse(batch, b) ==
    [j \in 1..Len(batch) |->
        IF j % 2 = 1
        THEN [id |-> KNum(batch[j].id), text |-> TranslationText(b),
              emotion |-> "happy"]
        ELSE [id |-> KNum(batch[j].id), text |-> TranslationText(b)]]

\* ids of the segments that are not in the batch
ForeignIds(detailed, batch) ==
    {detailed[j].id : j \in 1..Len(detailed)} \ {batch[j].id : j \in 1..Len(batch)}

\* an id no segment has
UnknownId(detailed) == Len(detailed) * SegmentSpacing + 1

Responses(detailed, batch, b) ==
    LET full == FullResponse(batch, b)
        text == TranslationText(b)
        foreign == {[id |-> KNum(f), text |-> text, emotion |-> "sad"] :
                        f \in ForeignIds(detailed, batch)}
    IN  {<< >>, full, Tail(full)}
        \cup {full \o <<x>> : x \in foreign}
        \cup {<<x>> : x \in foreign}
        \cup {full \o << [id |-> KNum(UnknownId(detailed)), text |-> text] >>,
              full \o << [text |-> text, emotion |-> "happy"] >>,
              full \o << [id |-> KStr, text |-> text] >>,
              full \o << [id |-> KList, text |-> text] >>,
              << [id |-> KNum(batch[1].id), emotion |-> "happy"] >> \o Tail(full)}

TrStart ==
    /\ \E n \in 0..MaxSegments :
         \E shift \in LengthShifts :
            tr_segments = InputSegments(n, shift)
    /\ detailed_segments = << >>
    /\ translated_segments_map = << >>
    /\ batch_start = 0
    /\ attempt = 0
    /\ success = FALSE
    /\ tr_result = << >>
    /\ tr_pc = "start"
    /\ calls = << >>
    /\ batch_log = << >>

\* the translator not running
TrIdle ==
    /\ tr_segments = << >>
    /\ detailed_segments = << >>
    /\ translated_segments_map = << >>
    /\ batch_start = 0
    /\ attempt = 0
    /\ success = FALSE
    /\ tr_result = << >>
    /\ tr_pc = "idle"
    /\ calls = << >>
    /\ batch_log = << >>

\* lines 84-85: `if not segments: return []`
ReturnEmpty ==
    /\ tr_pc = "start"
    /\ Len(tr_segments) = 0
    /\ tr_result' = << >>
    /\ tr_pc' = "returned"
    /\ UNCHANGED <<tr_segments, detailed_segments, translated_segments_map,
                   batch_start, attempt, success, calls, batch_log>>
    /\ UNCHANGED not_tr_vars

\* lines 91-115, 154-155: detailed_segments, the empty map, the first batch
PrepareSegments ==
    /\ tr_pc = "start"
    /\ Len(tr_segments) > 0
    /\ detailed_segments' =
          [i \in 1..Len(tr_segments) |-> DetailedSegment(tr_segments[i])]
    /\ translated_segments_map' = << >>
    /\ batch_start' = 0
    /\ attempt' = 0
    /\ success' = FALSE
    /\ tr_pc' = "attempt"
    /\ UNCHANGED <<tr_segments, tr_result, calls, batch_log>>
    /\ UNCHANGED not_tr_vars

\* what follows an iteration of the retry loop
AfterAttempt(succ) ==
    IF RetryAgain(succ, attempt)
    THEN /\ attempt' = attempt + 1
         /\ tr_pc' = "attempt"
    ELSE /\ attempt' = attempt
         /\ tr_pc' = "batch_end"

\* lines 157-168, 195-205: generate_content raises
AttemptRaises ==
    /\ tr_pc = "attempt"
    /\ calls' = Append(calls, [batch |-> BatchNo(batch_start), attempt |-> attempt,
                               submitted |-> SubmittedIds(detailed_segments,
                                                          batch_start),
                               outcome |-> "exception", items |-> << >>,
                               slept |-> BackoffSleeps(success, attempt)])
    /\ AfterAttempt(success)
    /\ UNCHANGED <<tr_segments, detailed_segments, translated_segments_map,
                   batch_start, success, tr_result, batch_log>>
    /\ UNCHANGED not_tr_vars

\* lines 157-193, 195-205: generate_content returns, response.parsed = items;
\* an exception of the merge loop is caught like one of the call
AttemptReturns ==
    /\ tr_pc = "attempt"
    /\ \E items \in Responses(detailed_segments,
                              BatchAt(detailed_segments, batch_start),
                              BatchNo(batch_start)) :
         IF Len(items) > 0
         THEN LET merged == MergeItems(translated_segments_map, items)
                  succ == IF merged.raised THEN success ELSE TRUE
              IN  /\ translated_segments_map' = merged.map
                  /\ success' = succ
                  /\ calls' = Append(calls,
                         [batch |-> BatchNo(batch_start), attempt |-> attempt,
                          outcome |-> IF merged.raised THEN "unparseable" ELSE "ok",
                          submitted |-> SubmittedIds(detailed_segments,
                                                     batch_start),
                          items |-> items,
                          slept |-> BackoffSleeps(succ, attempt)])
                  /\ AfterAttempt(succ)
         ELSE /\ calls' = Append(calls,
                     [batch |-> BatchNo(batch_start), attempt |-> attempt,
                      submitted |-> SubmittedIds(detailed_segments,
                                                 batch_start),
                      outcome |-> "empty", items |-> items,
                      slept |-> << EMPTY_RESPONSE_SLEEP >>
                                \o BackoffSleeps(success, attempt)])
              /\ AfterAttempt(success)
              /\ UNCHANGED <<translated_segments_map, success>>
    /\ UNCHANGED <<tr_segments, detailed_segments, batch_start, tr_result,
                   batch_log>>
    /\ UNCHANGED not_tr_vars

\* the batch loop without the sleep after a successful batch
BatchCooldownSleepsNone(succ) == << >>

\* lines 207-208: `if success: time.sleep(2)`
BatchCooldownSleeps(succ) == IF succ THEN << BATCH_COOLDOWN >> ELSE << >>

\* lines 207-208 and the step of the batch loop (113-114, 154-155)
EndBatch ==
    /\ tr_pc = "batch_end"
    /\ batch_log' = Append(batch_log,
                       [batch |-> BatchNo(batch_start), success |-> success,
                        slept |-> BatchCooldownSleeps(success)])
    /\ IF batch_start + BATCH_SIZE < Len(detailed_segments)
       THEN /\ batch_start' = batch_start + BATCH_SIZE
            /\ attempt' = 0
            /\ success' = FALSE
            /\ tr_pc' = "attempt"
       ELSE /\ tr_pc' = "merge"
            /\ UNCHANGED <<batch_start, attempt, success>>
    /\ UNCHANGED <<tr_segments, detailed_segments, translated_segments_map,
                   tr_result, calls>>
    /\ UNCHANGED not_tr_vars

\* lines 210-224: the map is joined back onto the segments by start
MergeBack ==
    /\ tr_pc = "merge"
    /\ IF FinalLoopRaises(tr_segments, translated_segments_map)
       THEN /\ tr_pc' = "raised"
            /\ UNCHANGED tr_result
       ELSE /\ tr_result' = FinalSegments(tr_segments, translated_segments_map)
            /\ tr_pc' = "returned"
    /\ UNCHANGED <<tr_segments, detailed_segments, translated_segments_map,
                   batch_start, attempt, success, calls, batch_log>>
    /\ UNCHANGED not_tr_vars

TrNext ==
    ReturnEmpty \/ PrepareSegments \/ AttemptRaises \/ AttemptReturns
    \/ EndBatch \/ MergeBack

-----------------------------------------------------------------------------
(* Synthesis and mixing: generate_dubbed_audio *)

\* bound: the longest segment list given to generate_dubbed_audio
MaxDubSegments == 3

\* current_duration > target_duration * 1.05, in percent
TEMPO_TRIGGER_PERCENT == 105
\* target_duration > 0.5
MIN_TARGET_DURATION == 5000
\* min(..., 1.3), in tenths
MAX_SPEED_TENTHS == 13
\* volume=0.4, in tenths
BACKGROUND_GAIN_TENTHS == 4
\* volume=2.5, in tenths
DIALOGUE_GAIN_TENTHS == 25
\* time.sleep(0.5) in generate_dub
TTS_COOLDOWN == 5000

\* file names: <<stem, index, start, suffix>>
BackgroundPath == <<"background", 0, 0, "">>
OutputPath == <<"dubbed_audio", 0, 0, "">>
\* os.path.join(temp_dir, f"segment_{i}_{start_time}.mp3")
TempFile(i, start_time) == <<"temp_tts/segment", i, start_time, "">>
\* temp_file.replace(".mp3", "_fast.mp3")
SpeedFilename(temp_file) == [temp_file EXCEPT ![4] = "_fast"]
InTempDir(path) == path[1] = "temp_tts/segment"

\* starts of the segments by position (0.0 s, 5.0 s, 9.0 s, then 4 s apart),
\* all shifted by the same offset below one millisecond
DubStart(i, offset) ==
    (CASE i = 1 -> 0
       [] i = 2 -> 5 * TicksPerSecond
       [] OTHER -> (4 * i - 3) * TicksPerSecond) + offset
StartOffsets == {0, 4, 7}
\* target durations (end - start) around the 0.5 s limit, and 2.0 s
DubLengths == {MIN_TARGET_DURATION, MIN_TARGET_DURATION + 1000, 20000}
\* transcripts: blank, and text
DubTranscripts == {"  ", "namaste"}
\* durations ffprobe reports for a clip: 0.0 when its output does not parse,
\* 0.62 s, 2.05 s, 2.1 s, 2.2 s, 3.0 s
MeasuredDurations == {0, 6200, 20500, 21000, 22000, 30000}

\* str.strip()
Strip(text) == IF text \in {"", " ", "  "} THEN "" ELSE text

\* mutant of NeedsTempo: the guard on the target duration forgotten
NeedsTempoAnyTarget(current_duration, target_duration) ==
    current_duration * 100 > target_duration * TEMPO_TRIGGER_PERCENT

\* current_duration > target_duration * 1.05 and target_duration > 0.5
NeedsTempo(current_duration, target_duration) ==
    /\ current_duration * 100 > target_duration * TEMPO_TRIGGER_PERCENT
    /\ target_duration > MIN_TARGET_DURATION

\* speed_factor = min(current_duration / target_duration, 1.3), as the
\* fraction <<numerator, denominator>> (target_duration > 0)
SpeedFactor(current_duration, target_duration) ==
    IF current_duration * 10 <= MAX_SPEED_TENTHS * target_duration
    THEN <<current_duration, target_duration>>
    ELSE <<MAX_SPEED_TENTHS, 10>>

\* mutant of MakeClip: the clip placed at the index of the segment
MakeClipAtIndex(path, start_time, i) == [path |-> path, start |-> i]

\* tts_audio_files.append({"path": final_segment_path, "start": start_time})
\* for segment i
MakeClip(path, start_time, i) == [path |-> path, start |-> start_time]

\* delay_ms = int(tts["start"] * 1000)
DelayMs(start) == TruncDiv(start * 1000, TicksPerSecond)

\* mutant of DialogueMix: amix left at its default, normalize=1
DialogueMixNormalized(n) ==
    [inputs |-> n, dropout_transition |-> 0, normalize |-> 1]

\* amix=inputs={len(tts_audio_files)}:dropout_transition=0:normalize=0
DialogueMix(n) ==
    [inputs |-> n, dropout_transition |-> 0, normalize |-> 0]

\* the final amix left at its default duration, the longest input
FinalMixLongest ==
    [first |-> "bg_quiet", second |-> "dialogue_loud", inputs |-> 2,
     duration |-> "longest", dropout_transition |-> 0, normalize |-> 0]

\* [bg_quiet][dialogue_loud]amix=inputs=2:duration=first:dropout_transition=0:normalize=0
FinalMix ==
    [first |-> "bg_quiet", second |-> "dialogue_loud", inputs |-> 2,
     duration |-> "first", dropout_transition |-> 0, normalize |-> 0]

\* lines 110-142: the ffmpeg command
BuildMixSpec(background, clips, output) ==
    [inputs |-> <<background>> \o [i \in 1..Len(clips) |-> clips[i].path],
     delays |-> [i \in 1..Len(clips) |-> DelayMs(clips[i].start)],
     dialogue |-> DialogueMix(Len(clips)),
     bg_quiet |-> [input |-> 0, volume |-> <<BACKGROUND_GAIN_TENTHS, 10>>],
     dialogue_loud |-> [volume |-> <<DIALOGUE_GAIN_TENTHS, 10>>],
     out |-> FinalMix,
     output |-> output]

DubStart0 ==
    /\ \E n \in 0..MaxDubSegments :
         \E offset \in StartOffsets :
            \E choice \in [1..n -> DubLengths \X DubTranscripts] :
               dub_segments =
                  [i \in 1..n |->
                     [start |-> DubStart(i, offset),
                      end |-> DubStart(i, offset) + choice[i][1],
                      speaker |-> i % 2,
                      transcript |-> choice[i][2]]]
    /\ api_key_set \in BOOLEAN
    /\ dub_idx = 1
    /\ tts_audio_files = << >>
    /\ files = {BackgroundPath}
    /\ mix_spec = << >>
    /\ dub_result = << >>
    /\ dub_pc = "start"
    /\ synth_events = << >>
    /\ last_tempo = << >>
    /\ in_flight = {}

\* generate_dubbed_audio not running
DubIdle ==
    /\ dub_segments = << >>
    /\ api_key_set = TRUE
    /\ dub_idx = 1
    /\ tts_audio_files = << >>
    /\ files = {BackgroundPath}
    /\ mix_spec = << >>
    /\ dub_result = << >>
    /\ dub_pc = "idle"
    /\ synth_events = << >>
    /\ last_tempo = << >>
    /\ in_flight = {}

\* lines 40-42: `if not segments: return background_audio_path`
ReturnNoSegments ==
    /\ dub_pc = "start"
    /\ Len(dub_segments) = 0
    /\ dub_result' = BackgroundPath
    /\ dub_pc' = "returned"
    /\ UNCHANGED <<dub_segments, api_key_set, dub_idx, tts_audio_files, files,
                   mix_spec, synth_events, last_tempo, in_flight>>
    /\ UNCHANGED not_dub_vars

\* lines 44-54: ElevenLabsClient() raises without an API key
InitClient ==
    /\ dub_pc = "start"
    /\ Len(dub_segments) > 0
    /\ IF api_key_set
       THEN /\ dub_pc' = "loop"
            /\ UNCHANGED dub_result
       ELSE /\ dub_result' = BackgroundPath
            /\ dub_pc' = "returned"
    /\ UNCHANGED <<dub_segments, api_key_set, dub_idx, tts_audio_files, files,
                   mix_spec, synth_events, last_tempo, in_flight>>
    /\ UNCHANGED not_dub_vars

\* the step of the loop over the segments
NextSegment ==
    /\ dub_idx' = dub_idx + 1
    /\ dub_pc' = IF dub_idx = Len(dub_segments) THEN "mix" ELSE "loop"

\* mutant of OnSynthesisError: the exception ends the loop
OnSynthesisErrorAbort ==
    /\ dub_idx' = dub_idx
    /\ dub_pc' = "mix"

\* lines 102-103: `except Exception` inside the loop body; the loop goes on
OnSynthesisError == NextSegment

\* lines 57-65: a segment whose transcript is blank is skipped
SkipBlankSegment ==
    /\ dub_pc = "loop"
    /\ Strip(dub_segments[dub_idx].transcript) = ""
    /\ synth_events' = Append(synth_events, [result |-> "not called", slept |-> << >>])
    /\ NextSegment
    /\ UNCHANGED <<dub_segments, api_key_set, tts_audio_files, files, mix_spec,
                   dub_result, last_tempo, in_flight>>
    /\ UNCHANGED not_dub_vars

\* lines 67-77: generate_dub is called for the segment, and with it the
\* service's text_to_speech.convert (elevenlabs_client.py 77-85)
RequestSynthesis ==
    /\ dub_pc = "loop"
    /\ Strip(dub_segments[dub_idx].transcript) /= ""
    /\ in_flight' = in_flight \cup {dub_idx}
    /\ dub_pc' = "synth"
    /\ UNCHANGED <<dub_segments, api_key_set, dub_idx, tts_audio_files, files,
                   mix_spec, dub_result, synth_events, last_tempo>>
    /\ UNCHANGED not_dub_vars

\* generate_dub without the sleep after the clip is written
SynthesisCooldownNone == << >>

\* elevenlabs_client.py 101: time.sleep(0.5) before generate_dub returns
SynthesisCooldown == << TTS_COOLDOWN >>

\* lines 69-77, 102-103: generate_dub raises (elevenlabs_client.py 105-107)
SynthesisFails ==
    /\ dub_pc = "synth"
    /\ synth_events' = Append(synth_events, [result |-> "raised", slept |-> << >>])
    /\ in_flight' = in_flight \ {dub_idx}
    /\ OnSynthesisError
    /\ UNCHANGED <<dub_segments, api_key_set, tts_audio_files, files, mix_spec,
                   dub_result, last_tempo>>
    /\ UNCHANGED not_dub_vars

\* lines 69-100: generate_dub writes the clip (elevenlabs_client.py 77-103),
\* its duration is measured and the tempo transform is run when needed
SynthesisSucceeds ==
    /\ dub_pc = "synth"
    /\ in_flight' = in_flight \ {dub_idx}
    /\ \E current_duration \in MeasuredDurations, ffmpeg_writes \in BOOLEAN :
        LET seg == dub_segments[dub_idx]
            start_time == seg.start
            target_duration == seg.end - seg.start
            temp_file == TempFile(dub_idx - 1, start_time)
            files1 == files \cup {temp_file}
            needs == NeedsTempo(current_duration, target_duration)
            speed_filename == SpeedFilename(temp_file)
            files2 == IF needs /\ ffmpeg_writes
                      THEN files1 \cup {speed_filename} ELSE files1
            final_segment_path ==
                IF needs /\ speed_filename \in files2
                THEN speed_filename ELSE temp_file
        IN  \* ffmpeg runs only when the transform is needed
            /\ needs \/ ~ffmpeg_writes
            /\ synth_events' = Append(synth_events,
                                  [result |-> "returned",
                                   slept |-> SynthesisCooldown])
            /\ files' = files2
            /\ IF temp_file \in files1
               THEN /\ tts_audio_files' =
                         Append(tts_audio_files,
                                MakeClip(final_segment_path, start_time, dub_idx - 1))
                    /\ last_tempo' =
                         [temp_file |-> temp_file,
                          target_duration |-> target_duration,
                          current_duration |-> current_duration,
                          applied |-> needs,
                          speed_factor |-> IF needs
                                           THEN SpeedFactor(current_duration,
                                                            target_duration)
                                           ELSE << >>,
                          emitted |-> final_segment_path]
               ELSE UNCHANGED <<tts_audio_files, last_tempo>>
    /\ NextSegment
    /\ UNCHANGED <<dub_segments, api_key_set, mix_spec, dub_result>>
    /\ UNCHANGED not_dub_vars

\* lines 105-107: `if not tts_audio_files: return background_audio_path`
ReturnNoClips ==
    /\ dub_pc = "mix"
    /\ Len(tts_audio_files) = 0
    /\ dub_result' = BackgroundPath
    /\ dub_pc' = "returned"
    /\ UNCHANGED <<dub_segments, api_key_set, dub_idx, tts_audio_files, files,
                   mix_spec, synth_events, last_tempo, in_flight>>
    /\ UNCHANGED not_dub_vars

\* lines 109-157: the mix command is built and run, the temporary clips are
\* removed, output_path is returned
MixAndReturn ==
    /\ dub_pc = "mix"
    /\ Len(tts_audio_files) > 0
    /\ mix_spec' = BuildMixSpec(BackgroundPath, tts_audio_files, OutputPath)
    /\ \E ffmpeg_writes \in BOOLEAN :
         files' = {f \in (IF ffmpeg_writes THEN files \cup {OutputPath} ELSE files) :
                      ~InTempDir(f)}
    /\ dub_result' = OutputPath
    /\ dub_pc' = "returned"
    /\ UNCHANGED <<dub_segments, api_key_set, dub_idx, tts_audio_files,
                   synth_events, last_tempo, in_flight>>
    /\ UNCHANGED not_dub_vars

DubNext ==
    ReturnNoSegments \/ InitClient \/ SkipBlankSegment \/ RequestSynthesis
    \/ SynthesisFails \/ SynthesisSucceeds \/ ReturnNoClips \/ MixAndReturn

-----------------------------------------------------------------------------
(* process_video, pipeline.py 13-108: the stages run one after the other on
   one video.  The stage actions above do the work of transcribe_audio's
   segmentation, of translate_segments and of generate_dubbed_audio; the
   actions below are the calls and hand-overs between them. *)

OriginalAudio == <<"audio/original", 0, 0, "">>
VocalsPath == <<"audio/separated/vocals", 0, 0, "">>
OutputVideo == <<"output/video", 0, 0, "">>

\* the environment: is GCP_PROJECT_ID set, what GOOGLE_APPLICATION_CREDENTIALS
\* names, and is target_lang one of SUPPORTED_LANGUAGES
Configs ==
    [project_id : BOOLEAN, credentials : {"unset", "no key file", "ok"},
     language_supported : BOOLEAN]

\* transcribe.py 307-309: `if not project_id or not credentials_path`
TranscriberConfigured(c) == c.project_id /\ c.credentials /= "unset"

\* translator.py 50-59: the exception of Translator.__init__, PyNone if none
TranslatorInitError(c) ==
    IF ~c.project_id THEN "RuntimeError"
    ELSE IF c.credentials = "unset" THEN "RuntimeError"
    ELSE IF c.credentials = "no key file" THEN "RuntimeError"
    ELSE IF ~c.language_supported THEN "ValueError"
    ELSE PyNone

\* two tokens of different speakers that carry no timing (offsets 0.0)
UntimedWords ==
    << [word |-> "yes", start_offset |-> 0, end_offset |-> 0,
        speaker_tag |-> ""],
       [word |-> "no", start_offset |-> 0, end_offset |-> 0,
        speaker_tag |-> "1"] >>

\* the token streams the speech service returns for the video's vocals: no
\* token, one token without text, one token, two tokens without timing, and
\* the dialogue of three tokens
PipeStreams ==
    {<< >>, UntimedWords,
     << [word |-> "", start_offset |-> 0, end_offset |-> SOFT_GAP,
         speaker_tag |-> ""] >>,
     << [word |-> "Hi", start_offset |-> 0, end_offset |-> SOFT_GAP,
         speaker_tag |-> ""] >>,
     DialogueWords}

\* process_video not running
PipeIdle ==
    /\ config = [project_id |-> TRUE, credentials |-> "ok",
                 language_supported |-> TRUE]
    /\ utterances = << >>
    /\ translated_segments = << >>
    /\ pipe_result = << >>
    /\ pipe_error = << >>
    /\ pipe_pc = "idle"

\* lines 21-36: the call of process_video
PipeStart ==
    /\ config \in Configs
    /\ utterances = << >>
    /\ translated_segments = << >>
    /\ pipe_result = << >>
    /\ pipe_error = << >>
    /\ pipe_pc = "extract"

\* generate_dubbed_audio not yet called; ELEVENLABS_API_KEY is set or not, and
\* the separation of an earlier run of the same video is on disk or not
PipeDubIdle ==
    /\ dub_segments = << >>
    /\ api_key_set \in BOOLEAN
    /\ dub_idx = 1
    /\ tts_audio_files = << >>
    /\ files \in {{}, {VocalsPath, BackgroundPath}}
    /\ mix_spec = << >>
    /\ dub_result = << >>
    /\ dub_pc = "idle"
    /\ synth_events = << >>
    /\ last_tempo = << >>
    /\ in_flight = {}

\* an exception leaves process_video, which has no try
PipeRaise(stage, error) ==
    /\ pipe_error' = [stage |-> stage, error |-> error]
    /\ pipe_pc' = "raised"

\* line 41, audioextractor.py 4-26: ffmpeg is run, and a missing output file
\* raises RuntimeError
PipeExtractAudio ==
    /\ pipe_pc = "extract"
    /\ \E ffmpeg_writes \in BOOLEAN :
         /\ files' = IF ffmpeg_writes THEN files \cup {OriginalAudio} ELSE files
         /\ IF OriginalAudio \in files'
            THEN pipe_pc' = "separate" /\ UNCHANGED pipe_error
            ELSE PipeRaise("extract_audio", "RuntimeError")
    /\ UNCHANGED <<config, utterances, translated_segments, pipe_result>>
    /\ UNCHANGED <<dub_segments, api_key_set, dub_idx, tts_audio_files,
                   mix_spec, dub_result, dub_pc, synth_events, last_tempo,
                   in_flight>>
    /\ UNCHANGED <<seg_vars, tr_vars, audio_vars>>

\* line 53, separator.py 6-58: an existing separation is reused, otherwise
\* demucs is run, and missing output files raise FileNotFoundError
PipeSeparateAudio ==
    /\ pipe_pc = "separate"
    /\ \E demucs_writes \in BOOLEAN :
         /\ files' = IF demucs_writes /\ ~({VocalsPath, BackgroundPath} \subseteq files)
                     THEN files \cup {VocalsPath, BackgroundPath} ELSE files
         /\ IF {VocalsPath, BackgroundPath} \subseteq files'
            THEN pipe_pc' = "transcribe" /\ UNCHANGED pipe_error
            ELSE PipeRaise("separate_audio", "FileNotFoundError")
    /\ UNCHANGED <<config, utterances, translated_segments, pipe_result>>
    /\ UNCHANGED <<dub_segments, api_key_set, dub_idx, tts_audio_files,
                   mix_spec, dub_result, dub_pc, synth_events, last_tempo,
                   in_flight>>
    /\ UNCHANGED <<seg_vars, tr_vars, audio_vars>>

\* line 58, transcribe.py 307-313, 400-404: transcribe_audio returns [] when
\* the configuration is missing and when the upload or the service raises
\* (as it does without the key file)
PipeTranscribeNothing ==
    /\ pipe_pc = "transcribe"
    /\ utterances' = << >>
    /\ pipe_pc' = "translator"
    /\ UNCHANGED <<config, translated_segments, pipe_result, pipe_error>>
    /\ UNCHANGED <<seg_vars, tr_vars, dub_vars, audio_vars>>

\* line 58, transcribe.py 340-370: the service answers with a token stream,
\* which the segmentation loop is run on
PipeTranscribe ==
    /\ pipe_pc = "transcribe"
    /\ TranscriberConfigured(config)
    /\ config.credentials = "ok"
    /\ words' \in PipeStreams
    /\ seg_pc' = "parse"
    /\ pipe_pc' = "segmenting"
    /\ UNCHANGED <<config, utterances, translated_segments, pipe_result,
                   pipe_error>>
    /\ UNCHANGED <<word_idx, current_speaker, segment_words, segment_start,
                   prev_word_end, segments, segment_tokens, current_tokens>>
    /\ UNCHANGED <<tr_vars, dub_vars, audio_vars>>

\* transcribe.py 372-381, 392-398: the segments of the one chunk, whose
\* offset is 0, are returned
PipeTranscribed ==
    /\ pipe_pc = "segmenting"
    /\ seg_pc = "done"
    /\ utterances' = segments
    /\ pipe_pc' = "translator"
    /\ UNCHANGED <<config, translated_segments, pipe_result, pipe_error>>
    /\ UNCHANGED <<seg_vars, tr_vars, dub_vars, audio_vars>>

\* lines 72-73, translator.py 28-74: Translator(target_language) raises or
\* translate_segments(utterances) is called
PipeTranslatorInit ==
    /\ pipe_pc = "translator"
    /\ IF TranslatorInitError(config) /= PyNone
       THEN /\ PipeRaise("Translator", TranslatorInitError(config))
            /\ UNCHANGED <<tr_segments, tr_pc>>
       ELSE /\ tr_segments' = utterances
            /\ tr_pc' = "start"
            /\ pipe_pc' = "translating"
            /\ UNCHANGED pipe_error
    /\ UNCHANGED <<config, utterances, translated_segments, pipe_result>>
    /\ UNCHANGED <<detailed_segments, translated_segments_map, batch_start,
                   attempt, success, tr_result, calls, batch_log>>
    /\ UNCHANGED <<seg_vars, dub_vars, audio_vars>>

\* line 73: an exception of translate_segments
PipeTranslateRaises ==
    /\ pipe_pc = "translating"
    /\ tr_pc = "raised"
    /\ PipeRaise("translate_segments", "TypeError")
    /\ UNCHANGED <<config, utterances, translated_segments, pipe_result>>
    /\ UNCHANGED <<seg_vars, tr_vars, dub_vars, audio_vars>>

\* lines 73-80: translate_segments has returned, and generate_dubbed_audio(
\* background_path, translated_segments, dubbed_audio) is called
PipeTranslated ==
    /\ pipe_pc = "translating"
    /\ tr_pc = "returned"
    /\ translated_segments' = tr_result
    /\ dub_segments' = tr_result
    /\ dub_pc' = "start"
    /\ pipe_pc' = "dubbing"
    /\ UNCHANGED <<config, utterances, pipe_result, pipe_error>>
    /\ UNCHANGED <<api_key_set, dub_idx, tts_audio_files, files, mix_spec,
                   dub_result, synth_events, last_tempo, in_flight>>
    /\ UNCHANGED <<seg_vars, tr_vars, audio_vars>>

\* lines 84-108: generate_dubbed_audio has returned (its result is not
\* kept); ffmpeg is run on the video and the file named dubbed_audio, which
\* it cannot read when it does not exist, and the dict is returned
PipeMergeVideo ==
    /\ pipe_pc = "dubbing"
    /\ dub_pc = "returned"
    /\ \E ffmpeg_writes \in BOOLEAN :
         /\ ffmpeg_writes => OutputPath \in files
         /\ files' = IF ffmpeg_writes THEN files \cup {OutputVideo} ELSE files
    /\ pipe_result' = [output_video_path |-> OutputVideo,
                       merged_audio |-> OutputPath]
    /\ pipe_pc' = "returned"
    /\ UNCHANGED <<config, utterances, translated_segments, pipe_error>>
    /\ UNCHANGED <<dub_segments, api_key_set, dub_idx, tts_audio_files,
                   mix_spec, dub_result, dub_pc, synth_events, last_tempo,
                   in_flight>>
    /\ UNCHANGED <<seg_vars, tr_vars, audio_vars>>

PipeNext ==
    \/ PipeExtractAudio \/ PipeSeparateAudio \/ PipeTranscribeNothing
    \/ PipeTranscribe \/ PipeTranscribed \/ PipeTranslatorInit
    \/ PipeTranslateRaises \/ PipeTranslated \/ PipeMergeVideo
    \/ SegNext \/ TrNext \/ DubNext

-----------------------------------------------------------------------------
(* The chunk loop of transcribe_audio, transcribe.py 355-398: the audio is cut
   into chunks of 240 s, transcribe_chunk_batch runs the segmentation loop on
   every recognition result of a chunk, and the chunk's start offset is added
   to the segments it returned. *)

MaxChunks == 2

\* chunk_duration=240.0
CHUNK_DURATION == 240 * TicksPerSecond

\* a token of speaker 0
Token(text, start_offset, end_offset) ==
    [word |-> text, start_offset |-> start_offset, end_offset |-> end_offset,
     speaker_tag |-> ""]

\* token streams of one recognition result, in chunk-local time: a token
\* shortly after the chunk's start, a token shortly before its end, both, and
\* a token without timing at the chunk's start followed by a token 1 s later
EarlyWords == << Token("early", SOFT_GAP - 2000, SOFT_GAP + 2000) >>
LateWords == << Token("late", CHUNK_DURATION - 5000, CHUNK_DURATION - 1000) >>
UntimedFirstWords ==
    << Token("first", 0, 0), Token("next", TicksPerSecond, TicksPerSecond + 4000) >>

\* the recognition results of one chunk
ChunkResults ==
    {<< >>, << EarlyWords >>, << LateWords >>, << EarlyWords, LateWords >>,
     << EarlyWords \o LateWords >>, << UntimedFirstWords >>}

\* transcribe.py 47-75: chunk k starts at k * chunk_duration
ChunkList(results) ==
    [k \in 1..Len(results) |->
        [start_offset |-> (k - 1) * CHUNK_DURATION, results |-> results[k]]]

\* lines 374-377: seg["start"] += offset, seg["end"] += offset
ShiftSegment(seg, offset) ==
    [seg EXCEPT !.start = @ + offset, !.end = @ + offset]

AudioStart ==
    /\ \E n \in 0..MaxChunks :
         \E results \in [1..n -> ChunkResults] : chunks = ChunkList(results)
    /\ chunk_idx = 1
    /\ result_idx = 1
    /\ all_segments = << >>
    /\ audio_pc = "chunk"

\* the chunk loop not running
AudioIdle ==
    /\ chunks = << >>
    /\ chunk_idx = 1
    /\ result_idx = 1
    /\ all_segments = << >>
    /\ audio_pc = "idle"

\* lines 361-370, 206: transcribe_chunk_batch is called for the chunk and
\* starts with `segments = []`
AudioBeginChunk ==
    /\ audio_pc = "chunk"
    /\ chunk_idx <= Len(chunks)
    /\ segments' = << >>
    /\ segment_tokens' = << >>
    /\ result_idx' = 1
    /\ audio_pc' = "result"
    /\ UNCHANGED <<chunks, chunk_idx, all_segments>>
    /\ UNCHANGED <<words, word_idx, current_speaker, segment_words,
                   segment_start, prev_word_end, seg_pc, current_tokens>>
    /\ UNCHANGED <<tr_vars, dub_vars, pipe_vars>>

\* lines 219-223: the next result of the chunk and the words of its first
\* alternative
AudioNextResult ==
    /\ audio_pc = "result"
    /\ result_idx <= Len(chunks[chunk_idx].results)
    /\ words' = chunks[chunk_idx].results[result_idx]
    /\ word_idx' = 1
    /\ current_tokens' = << >>
    /\ seg_pc' = "parse"
    /\ audio_pc' = "words"
    /\ UNCHANGED <<chunks, chunk_idx, result_idx, all_segments>>
    /\ UNCHANGED <<current_speaker, segment_words, segment_start,
                   prev_word_end, segments, segment_tokens>>
    /\ UNCHANGED <<tr_vars, dub_vars, pipe_vars>>

\* line 219: the loop over the results goes on
AudioResultDone ==
    /\ audio_pc = "words"
    /\ seg_pc = "done"
    /\ seg_pc' = "idle"
    /\ result_idx' = result_idx + 1
    /\ audio_pc' = "result"
    /\ UNCHANGED <<chunks, chunk_idx, all_segments>>
    /\ UNCHANGED <<words, word_idx, current_speaker, segment_words,
                   segment_start, prev_word_end, segments, segment_tokens,
                   current_tokens>>
    /\ UNCHANGED <<tr_vars, dub_vars, pipe_vars>>

\* lines 283, 372-378: transcribe_chunk_batch returns `segments`, and they
\* are appended to all_segments with the chunk's offset added
AudioEndChunk ==
    /\ audio_pc = "result"
    /\ result_idx > Len(chunks[chunk_idx].results)
    /\ all_segments' =
          all_segments \o
          [k \in 1..Len(segments) |->
              ShiftSegment(segments[k], chunks[chunk_idx].start_offset)]
    /\ chunk_idx' = chunk_idx + 1
    /\ audio_pc' = "chunk"
    /\ UNCHANGED <<chunks, result_idx>>
    /\ UNCHANGED <<seg_vars, tr_vars, dub_vars, pipe_vars>>

\* lines 397-398: return all_segments
AudioReturn ==
    /\ audio_pc = "chunk"
    /\ chunk_idx > Len(chunks)
    /\ audio_pc' = "returned"
    /\ UNCHANGED <<chunks, chunk_idx, result_idx, all_segments>>
    /\ UNCHANGED <<seg_vars, tr_vars, dub_vars, pipe_vars>>

AudioNext ==
    \/ AudioBeginChunk \/ AudioNextResult \/ AudioResultDone
    \/ AudioEndChunk \/ AudioReturn \/ SegNext

(* The segmentation rules of lines 225-279 run once over a whole token
   stream, as a function of the stream. *)
RECURSIVE SegmentLoop(_, _, _, _, _, _, _)
SegmentLoop(ws, i, speaker, seg_words, seg_start, prev_end, segs) ==
    IF i > Len(ws)
    THEN IF Len(seg_words) > 0
         THEN Append(segs, MakeSegment(seg_start, prev_end, speaker, seg_words))
         ELSE segs
    ELSE LET word == ws[i]
             speaker_id == SpeakerId(word.speaker_tag)
             silence_gap == SilenceGap(word.start_offset, prev_end)
             split == (speaker_id /= speaker \/ IsPause(silence_gap)
                       \/ IsTooLong(word.start_offset, seg_start, silence_gap))
                      /\ Len(seg_words) > 0
         IN  IF split
             THEN SegmentLoop(ws, i + 1, speaker_id, << word.word >>,
                              word.start_offset, word.end_offset,
                              Append(segs, MakeSegment(seg_start, prev_end,
                                                       speaker, seg_words)))
             ELSE SegmentLoop(ws, i + 1,
                              IF Len(seg_words) = 0 THEN speaker_id ELSE speaker,
                              Append(seg_words, word.word),
                              IF Len(seg_words) = 0 THEN word.start_offset
                                                    ELSE seg_start,
                              word.end_offset, segs)

SegmentStream(ws) ==
    IF Len(ws) = 0 THEN << >>
    ELSE SegmentLoop(ws, 1, 0, << >>, ws[1].start_offset, ws[1].start_offset,
                     << >>)

-----------------------------------------------------------------------------
(* Specifications: each stage run on its own inputs, and the whole pipeline *)

SegInit == SegStart /\ TrIdle /\ DubIdle /\ PipeIdle /\ AudioIdle
SpecSeg == SegInit /\ [][SegNext]_vars

TrInit == TrStart /\ SegIdle /\ DubIdle /\ PipeIdle /\ AudioIdle
SpecTr == TrInit /\ [][TrNext]_vars

DubInit == DubStart0 /\ SegIdle /\ TrIdle /\ PipeIdle /\ AudioIdle
SpecDub == DubInit /\ [][DubNext]_vars

PipeInit == PipeStart /\ SegIdle /\ TrIdle /\ PipeDubIdle /\ AudioIdle
SpecPipe == PipeInit /\ [][PipeNext]_vars

AudioInit == AudioStart /\ SegIdle /\ TrIdle /\ DubIdle /\ PipeIdle
SpecAudio == AudioInit /\ [][AudioNext]_vars

-----------------------------------------------------------------------------
(* Claims about segmentation *)

\* the tokens of emitted segment k, in the order they were put into it
TokensOf(k) == [j \in 1..Len(segment_tokens[k]) |-> words[segment_tokens[k][j]]]

\* C1: no emitted segment contains two consecutive tokens t_prev, t such that
\* (a) t's speaker differs from the segment's speaker, or (b) t starts more
\* than 0.7 s after t_prev ends, or (c) t starts more than 30.0 s after the
\* segment's start and more than 0.3 s after t_prev ends.
C1_NoSegmentCrossesBoundary ==
    \A k \in 1..Len(segments) :
        \A j \in 2..Len(segment_tokens[k]) :
            LET t == TokensOf(k)[j]
                t_prev == TokensOf(k)[j - 1]
                gap == t.start_offset - t_prev.end_offset
            IN  /\ SpeakerId(t.speaker_tag) = segments[k].speaker
                /\ ~ (gap > PAUSE_GAP)
                /\ ~ (t.start_offset - segments[k].start > MAX_SEGMENT_SPAN
                      /\ gap > SOFT_GAP)

\* the concatenation of a sequence of sequences
RECURSIVE Flatten(_)
Flatten(ss) == IF Len(ss) = 0 THEN << >> ELSE ss[1] \o Flatten(Tail(ss))

\* the texts of the tokens of emitted segment k
TextsOf(k) == [j \in 1..Len(segment_tokens[k]) |-> TokensOf(k)[j].word]

\* C11: at every step the tokens of the emitted segments followed by those of
\* the segment in progress are the tokens read so far, each once and in input
\* order; no emitted segment is empty; when the loop has ended the segment in
\* progress has been emitted, so the words of the segments in segment order
\* are the token texts in input order, and an empty stream gives no segment.
C11_TokensPreserved ==
    /\ seg_pc \in {"loop", "flush"} =>
          Flatten(segment_tokens) \o current_tokens
              = [i \in 1..(word_idx - 1) |-> i]
    /\ \A k \in 1..Len(segment_tokens) : Len(segment_tokens[k]) > 0
    /\ seg_pc = "done" =>
          /\ Len(segment_tokens) = Len(segments)
          /\ Flatten(segment_tokens) = [i \in 1..Len(words) |-> i]
          /\ JoinWords([k \in 1..Len(segments) |-> segments[k].transcript])
                 = JoinWords([i \in 1..Len(words) |-> words[i].word])
          /\ (Len(words) = 0 => segments = << >>)

\* a stream of several tokens cut into several segments, the last of them
\* emitted after the loop
C11_Witness ==
    /\ seg_pc = "done"
    /\ Len(words) = MaxWords
    /\ Len(segments) = 2
    /\ Len(segment_tokens[2]) = 2

\* C12: every emitted segment starts at its first token's start, ends at its
\* last token's end, has the tokens' texts joined by single spaces as its
\* transcript and the speaker of its first token; the stream (Hi, 0.0, 0.4,
\* speaker 0), (there, 0.4, 0.8, speaker 0), (Bob, 2.0, 2.3, speaker 1) gives
\* exactly {0.0, 0.8, 0, "Hi there"} and {2.0, 2.3, 1, "Bob"}.
C12_SegmentFields ==
    /\ \A k \in 1..Len(segments) :
          LET ts == TokensOf(k)
          IN  /\ segments[k].start = ts[1].start_offset
              /\ segments[k].end = ts[Len(ts)].end_offset
              /\ segments[k].transcript = JoinWords(TextsOf(k))
              /\ segments[k].speaker = SpeakerId(ts[1].speaker_tag)
    /\ (seg_pc = "done" /\ words = DialogueWords) =>
          segments = << [start |-> 0, end |-> 8000, speaker |-> 0,
                         transcript |-> "Hi there"],
                        [start |-> 20000, end |-> 23000, speaker |-> 1,
                         transcript |-> "Bob"] >>

\* the stream of the example has been segmented
C12_Witness ==
    /\ seg_pc = "done"
    /\ words = DialogueWords
    /\ Len(segments) = 2

\* is the token stream ordered in time: each token's start <= its end <= the
\* next token's start
TimeOrdered(ws) ==
    /\ \A i \in 1..Len(ws) : ws[i].start_offset <= ws[i].end_offset
    /\ \A i \in 1..(Len(ws) - 1) : ws[i].end_offset <= ws[i + 1].start_offset

\* C22: for a token stream ordered in time, every emitted segment has
\* start < end.
C22_SegmentsHaveLength ==
    TimeOrdered(words) =>
        \A k \in 1..Len(segments) : segments[k].start < segments[k].end

\* the tokens of all results of all chunks in one stream, every token moved
\* by its chunk's offset
ShiftWords(ws, offset) ==
    [i \in 1..Len(ws) |->
        [ws[i] EXCEPT !.start_offset = @ + offset, !.end_offset = @ + offset]]
GlobalWords ==
    Flatten([k \in 1..Len(chunks) |->
                ShiftWords(Flatten(chunks[k].results), chunks[k].start_offset)])

\* C23: the list transcribe_audio returns is the list the segmentation rules
\* give when they are run once over the global stream of all tokens, each
\* moved by its chunk's offset.
C23_ChunkedEqualsGlobal ==
    audio_pc = "returned" => all_segments = SegmentStream(GlobalWords)

\* the loop of the actions and the function of the stream agree on every
\* single stream, and the chunked run agrees with the global one when a
\* pause separates the chunks' tokens
SegmentStreamIsTheLoop ==
    (audio_pc = "idle" /\ seg_pc = "done") => segments = SegmentStream(words)
ChunkedAgreesAcrossPause ==
    /\ audio_pc = "returned"
    /\ Len(chunks) = 2
    /\ chunks[1].results = << EarlyWords >>
    /\ chunks[2].results = << LateWords >>
    /\ Len(all_segments) = 2
    /\ all_segments = SegmentStream(GlobalWords)

-----------------------------------------------------------------------------
(* Claims about translation *)

\* the batch that segment i of the input belongs to
SegmentBatch(i) == BatchNo(i - 1)

\* the calls made for batch b, as indices into `calls`
CallsOf(b) == {k \in 1..Len(calls) : calls[k].batch = b}

\* the batches whose MAX_RETRIES attempts all failed
ExhaustedBatches ==
    {calls[k].batch : k \in {j \in 1..Len(calls) :
                                /\ calls[j].attempt = MAX_RETRIES - 1
                                /\ calls[j].outcome /= "ok"}}

\* the outcomes of an attempt that failed: the call raised, the response was
\* empty, or merging the response raised
FailedOutcomes == {"exception", "empty", "unparseable"}

\* the number of batches of the input
BatchCount == (Len(tr_segments) + BATCH_SIZE - 1) \div BATCH_SIZE

\* C3: the list returned by translate_segments has the length of the input,
\* and its i-th element has the start, end and speaker of the i-th input
\* segment, whatever the service answered.
C3_OutputMatchesInput ==
    tr_pc = "returned" =>
        /\ Len(tr_result) = Len(tr_segments)
        /\ \A i \in 1..Len(tr_segments) :
              /\ i \in DOMAIN tr_result
              /\ tr_result[i].start = tr_segments[i].start
              /\ tr_result[i].end = tr_segments[i].end
              /\ tr_result[i].speaker = tr_segments[i].speaker

\* C3 witness: a returned list of two batches, after an exception and an empty
\* response, with one segment translated and another one left untranslated
C3_Witness ==
    /\ tr_pc = "returned"
    /\ Len(tr_segments) > BATCH_SIZE
    /\ \E k \in 1..Len(calls) : calls[k].outcome = "exception"
    /\ \E k \in 1..Len(calls) : calls[k].outcome = "empty"
    /\ \E i \in 1..Len(tr_result) :
          tr_result[i].transcript /= tr_segments[i].transcript
    /\ \E i \in 1..Len(tr_result) :
          tr_result[i].transcript = tr_segments[i].transcript

\* C4: when all 3 attempts of a batch failed, every segment of that batch is
\* returned with its source transcript, whatever the other attempts and the
\* other batches returned.
C4_ExhaustedBatchKeepsSource ==
    tr_pc = "returned" =>
        \A i \in 1..Len(tr_segments) :
            SegmentBatch(i) \in ExhaustedBatches =>
                tr_result[i].transcript = tr_segments[i].transcript

C6_BackoffAfterEveryFailure ==
    \A k \in 1..Len(calls) :
        calls[k].outcome \in FailedOutcomes =>
            calls[k].slept = << 5 * (2 ^ calls[k].attempt) >>

\* C10: max_words_allowed = max(3, floor((end - start) * 2.5)); it is at least
\* 3 for every duration, non-decreasing in the duration, and 5 for 2.0 s.
C10_WordBudget ==
    \A i \in 1..Len(detailed_segments) :
        LET di == tr_segments[i].end - tr_segments[i].start
            mi == detailed_segments[i].max_words_allowed
        IN  /\ mi = Max(3, FloorDiv(di * 5, 2 * TicksPerSecond))
            /\ mi >= 3
            /\ di = 2 * TicksPerSecond => mi = 5
            /\ \A j \in 1..Len(detailed_segments) :
                  LET dj == tr_segments[j].end - tr_segments[j].start
                  IN  di <= dj => mi <= detailed_segments[j].max_words_allowed

\* C10 witness: budgets computed for a negative, a zero and a 2.0 s duration,
\* and a budget above the floor
C10_Witness ==
    /\ \E i \in 1..Len(detailed_segments) :
          tr_segments[i].end < tr_segments[i].start
    /\ \E i \in 1..Len(detailed_segments) :
          tr_segments[i].end = tr_segments[i].start
    /\ \E i \in 1..Len(detailed_segments) :
          /\ tr_segments[i].end - tr_segments[i].start = 2 * TicksPerSecond
          /\ detailed_segments[i].max_words_allowed = 5
    /\ \E i \in 1..Len(detailed_segments) :
          detailed_segments[i].max_words_allowed = 4

\* the calls for segment i's own batch whose response holds an item with
\* segment i's id
OwnAnswers(i) ==
    {k \in CallsOf(SegmentBatch(i)) :
        \E j \in 1..Len(calls[k].items) :
            DictGet(calls[k].items[j], "id", KNone) = KNum(tr_segments[i].start)}

\* C13: in the returned list a segment whose id is in no response to its own
\* batch keeps its source transcript, and a segment whose transcript differs
\* from its source carries a text that a response to its own batch gave for
\* its id: an item returned for a batch that did not submit its id, and so
\* the response to another batch, changes no segment.
C13_OnlyOwnBatchChangesSegment ==
    tr_pc = "returned" =>
        \A i \in 1..Len(tr_result) :
            /\ OwnAnswers(i) = {} =>
                  tr_result[i].transcript = tr_segments[i].transcript
            /\ tr_result[i].transcript /= tr_segments[i].transcript =>
                  \E k \in OwnAnswers(i) :
                     \E j \in 1..Len(calls[k].items) :
                        /\ DictGet(calls[k].items[j], "id", KNone)
                              = KNum(tr_segments[i].start)
                        /\ DictGet(calls[k].items[j], "text", PyNone)
                              = tr_result[i].transcript

\* C14: translate_segments never raises, whatever the service answers; when it
\* has ended it has returned a list of as many segments as it was given.
C14_NeverRaises ==
    /\ tr_pc /= "raised"
    /\ tr_pc = "returned" => Len(tr_result) = Len(tr_segments)

\* C16: a batch that succeeded ended with its successful call, after which
\* the only sleep before the next batch is the cooldown of 2 s, and no call
\* for a batch is made before every earlier batch has ended.
C16_CooldownAfterSuccess ==
    /\ \A k \in 1..Len(calls) : calls[k].batch <= Len(batch_log) + 1
    /\ \A b \in 1..Len(batch_log) :
          /\ batch_log[b].batch = b
          /\ batch_log[b].success =>
                \E k \in CallsOf(b) :
                   /\ calls[k].outcome = "ok"
                   /\ \A j \in CallsOf(b) : j <= k
                   /\ calls[k].slept \o batch_log[b].slept = << BATCH_COOLDOWN >>

\* a batch that succeeded at its second attempt, followed by a call for the
\* next batch
C16_Witness ==
    /\ Len(batch_log) >= 1
    /\ batch_log[1].success
    /\ \E k \in CallsOf(1) : calls[k].outcome \in FailedOutcomes
    /\ CallsOf(2) /= {}

\* the starts of the segments that make up the b-th run of BATCH_SIZE
\* consecutive segments of the input
RunOfInput(b) ==
    LET first == (b - 1) * BATCH_SIZE + 1
        last == Min(b * BATCH_SIZE, Len(tr_segments))
    IN  [j \in 1..(last - first + 1) |-> tr_segments[first + j - 1].start]

\* C24: every call submits one run of at most 5 consecutive segments of the
\* input, in input order; the calls go through the runs in order, and a call
\* for a run is made only after every earlier run has succeeded or used up
\* its attempts; n segments cause at most 3 * ceil(n/5) calls, no segment
\* none; and when the batches are done every segment was submitted, in the
\* calls of one batch only.
C24_ConsecutiveBatches ==
    LET n == Len(tr_segments)
    IN  /\ \A k \in 1..Len(calls) :
              /\ calls[k].submitted = RunOfInput(calls[k].batch)
              /\ Len(calls[k].submitted) \in 1..5
              /\ \A b \in 1..(calls[k].batch - 1) :
                    /\ b <= Len(batch_log)
                    /\ batch_log[b].success \/ b \in ExhaustedBatches
        /\ \A k, l \in 1..Len(calls) : k < l => calls[k].batch <= calls[l].batch
        /\ Len(calls) <= 3 * ((n + 4) \div 5)
        /\ n = 0 => calls = << >>
        /\ tr_pc \in {"merge", "returned", "raised"} =>
              \A i \in 1..n :
                 {calls[k].batch : k \in {c \in 1..Len(calls) :
                     \E j \in 1..Len(calls[c].submitted) :
                        calls[c].submitted[j] = tr_segments[i].start}}
                   = {((i - 1) \div 5) + 1}

\* two batches, the first of them submitted three times
C24_Witness ==
    /\ tr_pc = "returned"
    /\ Len(tr_segments) > BATCH_SIZE
    /\ Cardinality(CallsOf(1)) = MAX_RETRIES
    /\ Cardinality(CallsOf(2)) = 1

\* what tells a translated segment from one that was not: the join adds the
\* key "emotion" to the segments it finds in the map, and only to those
LooksTranslated(seg) == "emotion" \in DOMAIN seg

\* C21: in the returned list every segment of a batch whose 3 attempts all
\* failed can be told from a translated segment.
C21_ExhaustedBatchMarked ==
    tr_pc = "returned" =>
        \A i \in 1..Len(tr_result) :
            SegmentBatch(i) \in ExhaustedBatches => ~LooksTranslated(tr_result[i])

-----------------------------------------------------------------------------
(* Claims about synthesis and mixing *)

\* C2: for a synthesized segment the tempo transform is applied if and only
\* if measured > 1.05 * target and target > 0.5 s; when applied its factor is
\* min(measured / target, 1.3) and lies in [1.0, 1.3]; when not applied the
\* emitted clip is the synthesized clip (target 2.0 s: measured 3.0 s gives
\* 1.3, measured 2.05 s gives no correction).
C2_TempoCorrection ==
    last_tempo /= << >> =>
        LET m == last_tempo.current_duration
            t == last_tempo.target_duration
            f == last_tempo.speed_factor
        IN  /\ last_tempo.applied <=> (m * 100 > t * 105 /\ 2 * t > TicksPerSecond)
            /\ last_tempo.applied =>
                  /\ f[2] > 0
                  /\ IF 10 * m <= 13 * t
                     THEN f[1] * t = m * f[2]
                     ELSE 10 * f[1] = 13 * f[2]
                  /\ f[2] <= f[1]
                  /\ 10 * f[1] <= 13 * f[2]
            /\ ~last_tempo.applied => last_tempo.emitted = last_tempo.temp_file
            /\ (t = 2 * TicksPerSecond /\ m = 3 * TicksPerSecond) =>
                  (last_tempo.applied /\ 10 * f[1] = 13 * f[2])
            /\ (t = 2 * TicksPerSecond /\ 100 * m = 205 * TicksPerSecond) =>
                  ~last_tempo.applied

\* C2 witness: a 2.0 s segment whose clip measures 3.0 s, sped up by 1.3
C2_Witness ==
    /\ last_tempo /= << >>
    /\ last_tempo.target_duration = 2 * TicksPerSecond
    /\ last_tempo.current_duration = 3 * TicksPerSecond
    /\ last_tempo.applied
    /\ last_tempo.emitted = SpeedFilename(last_tempo.temp_file)

\* starts of the segments among the first k for which synthesis returned
RECURSIVE ReturnedStarts(_)
ReturnedStarts(k) ==
    IF k = 0 THEN << >>
    ELSE IF synth_events[k].result = "returned"
         THEN Append(ReturnedStarts(k - 1), dub_segments[k].start)
         ELSE ReturnedStarts(k - 1)

\* C7: a failing synthesis never ends the loop; the failing segment gives no
\* clip, every other non-blank segment whose synthesis succeeds gives exactly
\* one clip with the start of that segment, in the order of the segments.
C7_FailureSkipsOneSegment ==
    /\ dub_pc = "loop" => Len(synth_events) = dub_idx - 1
    /\ dub_pc = "mix" => Len(synth_events) = Len(dub_segments)
    /\ \A i \in 1..Len(synth_events) :
          synth_events[i].result = "not called"
             <=> Strip(dub_segments[i].transcript) = ""
    /\ [i \in 1..Len(tts_audio_files) |-> tts_audio_files[i].start]
          = ReturnedStarts(Len(synth_events))

\* C7 witness: the loop ran to its end over a failed synthesis followed by a
\* successful one
C7_Witness ==
    /\ dub_pc = "mix"
    /\ \E i \in 1..Len(synth_events) : \E j \in 1..Len(synth_events) :
          /\ i < j
          /\ synth_events[i].result = "raised"
          /\ synth_events[j].result = "returned"
    /\ Len(tts_audio_files) < Len(dub_segments)
    /\ Len(tts_audio_files) >= 1

\* C8: every mix built, for any number N >= 1 of clips, has normalization off
\* in the N-input dialogue mix and in the 2-input background+dialogue mix.
C8_NormalizationOff ==
    mix_spec /= << >> =>
        /\ mix_spec.dialogue.inputs = Len(tts_audio_files)
        /\ mix_spec.dialogue.inputs >= 1
        /\ mix_spec.dialogue.normalize = 0
        /\ mix_spec.out.inputs = 2
        /\ mix_spec.out.normalize = 0

\* C8 witness: a mix of several clips
C8_Witness ==
    /\ mix_spec /= << >>
    /\ mix_spec.dialogue.inputs >= 2

\* C9: every clip's delay in milliseconds is round(clip.start * 1000), the
\* nearest integer to its start in milliseconds.
C9_DelayIsRounded ==
    mix_spec /= << >> =>
        \A i \in 1..Len(tts_audio_files) :
            mix_spec.delays[i] = RoundDiv(tts_audio_files[i].start * 1000,
                                          TicksPerSecond)

\* C15: at most one synthesis request is in flight, it is the request for the
\* segment the loop is at, it was issued only after the request of every
\* earlier segment had returned or failed (or the segment was skipped), and
\* every request that returned was followed by the cooldown of 0.5 s before
\* the loop went on.
C15_OneRequestAtATime ==
    /\ Cardinality(in_flight) <= 1
    /\ \A i \in in_flight : i = dub_idx /\ Len(synth_events) = i - 1
    /\ dub_pc \in {"loop", "synth"} => Len(synth_events) = dub_idx - 1
    /\ \A i \in 1..Len(synth_events) :
          /\ synth_events[i].result = "returned" =>
                synth_events[i].slept = << TTS_COOLDOWN >>
          /\ synth_events[i].result /= "returned" =>
                synth_events[i].slept = << >>

\* the request for the second segment is in flight after the first segment's
\* request returned
C15_Witness ==
    /\ in_flight = {2}
    /\ synth_events[1].result = "returned"

\* C17: every mix built, for any number N >= 1 of clips, applies gain 0.4 to
\* the background (input 0) and gain 2.5 to the dialogue, mixes exactly the N
\* delayed clips into the dialogue track, and takes the output duration from
\* the first input of the final mix, which is the background track.
C17_MixGainsAndDuration ==
    mix_spec /= << >> =>
        LET n == Len(tts_audio_files)
            bg == mix_spec.bg_quiet.volume
            dlg == mix_spec.dialogue_loud.volume
        IN  /\ n >= 1
            /\ 10 * bg[1] = 4 * bg[2]
            /\ 10 * dlg[1] = 25 * dlg[2]
            /\ mix_spec.bg_quiet.input = 0
            /\ mix_spec.inputs[1] = BackgroundPath
            /\ Len(mix_spec.inputs) = n + 1
            /\ Len(mix_spec.delays) = n
            /\ mix_spec.dialogue.inputs = n
            /\ \A i \in 1..n : mix_spec.inputs[i + 1] = tts_audio_files[i].path
            /\ mix_spec.out.duration = "first"
            /\ mix_spec.out.first = "bg_quiet"

\* a mix has been built of the one clip that three segments gave
C17_Witness ==
    /\ mix_spec /= << >>
    /\ Len(mix_spec.delays) = 1
    /\ Len(dub_segments) = 3
    /\ dub_pc = "returned"

-----------------------------------------------------------------------------
(* Claims about the pipeline *)

\* C18: a missing configuration or an empty segment list makes a stage a
\* no-op and never raises: transcribe_audio without its configuration
\* returns [], translation of an empty list returns it unchanged,
\* generate_dubbed_audio without segments or without its API key returns the
\* background path, and no exception of a missing configuration leaves
\* process_video.
C18_StructuralFailureIsNoOp ==
    /\ (~TranscriberConfigured(config)
          /\ pipe_pc \notin {"extract", "separate", "transcribe", "raised"})
          => utterances = << >>
    /\ (tr_pc = "returned" /\ tr_segments = << >>) => tr_result = tr_segments
    /\ (dub_pc = "returned" /\ (dub_segments = << >> \/ ~api_key_set))
          => dub_result = BackgroundPath
    /\ pipe_pc = "raised" => pipe_error.stage /= "Translator"

\* C19: a toolkit run that leaves no output file is detected and reported:
\* past the extraction the extracted audio exists, every clip handed to the
\* mix exists, the path generate_dubbed_audio returns is the path of a file
\* that exists, and so is the video path process_video returns.
C19_MissingOutputReported ==
    /\ pipe_pc \notin {"extract", "raised"} => OriginalAudio \in files
    /\ dub_pc \in {"loop", "synth", "mix"} =>
          \A i \in 1..Len(tts_audio_files) : tts_audio_files[i].path \in files
    /\ dub_pc = "returned" => dub_result \in files
    /\ pipe_pc = "returned" => pipe_result.output_video_path \in files

\* C20: the segments transcription hands to translation have pairwise
\* distinct starts, so no two of them are joined with the same entry of the
\* start-keyed map.
C20_DistinctStarts ==
    /\ \A i, j \in 1..Len(utterances) :
          i /= j => utterances[i].start /= utterances[j].start
    /\ \A i, j \in 1..Len(tr_segments) :
          i /= j => KNum(tr_segments[i].start) /= KNum(tr_segments[j].start)

\* C25: the audio process_video gives to the merge is the path
\* generate_dubbed_audio returned; when the dubbing stage did nothing (no
\* segment, no synthesis client, or no clip synthesized) that is the
\* background track.
C25_MergesReturnedAudio ==
    pipe_pc = "returned" =>
        /\ pipe_result.merged_audio = dub_result
        /\ Len(tts_audio_files) = 0 => pipe_result.merged_audio = BackgroundPath

=============================================================================
